---- MODULE Spec2Model ----
(***************************************************************************)
(* State-machine model of src/src/App.tsx: the highlight registry held in  *)
(* the App component's React state (url, highlights) and the asynchronous  *)
(* word scans (highlightWords) that the url effect starts.                 *)
(*                                                                         *)
(* A JavaScript string is a sequence of one-character strings.  One action *)
(* is one event-loop task: an event handler, or the continuation of one    *)
(* await of highlightWords.                                                *)
(***************************************************************************)
EXTENDS Integers, Sequences, FiniteSets, TLC

\* ------------------------------------------------------------------ bounds
\* Number of toggleDocument calls explored (each starts one more scan).
MaxToggles == 2
\* Number of highlights made by addHighlight that the registry holds at a time.
MaxManual == 1
\* Number of scans in flight when the user toggles the document.
MaxInFlight == 2

\* ----------------------------------------------------------------- strings
PRIMARY_PDF_URL == "https://arxiv.org/pdf/1708.08021"
SECONDARY_PDF_URL == "https://arxiv.org/pdf/1604.02480"
Urls == {PRIMARY_PDF_URL, SECONDARY_PDF_URL}

\* "Automatically highlighted:" (lines 114 and 191)
AutoMarker ==
  <<"A","u","t","o","m","a","t","i","c","a","l","l","y"," ",
    "h","i","g","h","l","i","g","h","t","e","d",":">>

\* String.prototype.startsWith
StartsWith(s, p) == Len(s) >= Len(p) /\ SubSeq(s, 1, Len(p)) = p

\* the characters \w of a regular expression, among those the model uses
WordChars == {"I","n","a","s","i","d","e","w","t","h","b","x","o","k","_","0"}
IsWordChar(c) == c \in WordChars

\* the class [.*+?^${}()|[\]\\] of line 55
RegexSpecials == {".","*","+","?","^","$","{","}","(",")","|","[","]","\\"}

\* searchWord.replace(/[.*+?^${}()|[\]\\]/g, '\\$&')
RECURSIVE EscapeRegExp(_)
EscapeRegExp(w) ==
  IF w = <<>> THEN <<>>
  ELSE (IF Head(w) \in RegexSpecials THEN <<"\\", Head(w)>> ELSE <<Head(w)>>)
       \o EscapeRegExp(Tail(w))

\* The atoms of the pattern source between the two \b: an escaped character
\* is that literal, an unescaped "." is any character, another character is
\* itself.
RECURSIVE PatternAtoms(_)
PatternAtoms(p) ==
  IF p = <<>> THEN <<>>
  ELSE IF Head(p) = "\\" /\ Len(p) >= 2
       THEN <<[kind |-> "lit", ch |-> p[2]]>> \o PatternAtoms(Tail(Tail(p)))
  ELSE IF Head(p) = "."
       THEN <<[kind |-> "any", ch |-> "."]>> \o PatternAtoms(Tail(p))
  ELSE <<[kind |-> "lit", ch |-> Head(p)]>> \o PatternAtoms(Tail(p))

\* new RegExp(`\\b${escapedWord}\\b`, "g"): the compiled atoms
CompileRegex(searchWord) == PatternAtoms(EscapeRegExp(searchWord))

\* \b at 0-based offset i of text: exactly one side is a word character
WordBoundary(text, i) ==
  LET before == i >= 1 /\ IsWordChar(text[i])
      after  == i < Len(text) /\ IsWordChar(text[i + 1])
  IN before # after

AtomsMatchAt(text, atoms, i) ==
  /\ i + Len(atoms) <= Len(text)
  /\ \A k \in 1..Len(atoms) :
        atoms[k].kind = "any" \/ text[i + k] = atoms[k].ch

MatchesAt(text, atoms, i) ==
  /\ WordBoundary(text, i)
  /\ AtomsMatchAt(text, atoms, i)
  /\ WordBoundary(text, i + Len(atoms))

\* regex.exec(itemText) of a global regex: the first match at or after
\* lastIndex.  index = -1 stands for null, which resets lastIndex to 0.
RegexExec(text, atoms, lastIndex) ==
  LET hits == {i \in lastIndex..Len(text) : MatchesAt(text, atoms, i)}
  IN IF hits = {} THEN [index |-> -1, lastIndex |-> 0]
     ELSE LET i == CHOOSE j \in hits : \A k \in hits : j <= k
          IN [index |-> i, lastIndex |-> i + Len(atoms)]

\* while ((match = regex.exec(itemText)) !== null) { ... } of lines 67-99:
\* the [start, end) pairs of the matches, in order.  The loop makes one exec
\* per iteration; a loop that has made more than Len(text) + 1 of them is not
\* advancing lastIndex and never ends (diverged).
RECURSIVE ExecLoop(_, _, _, _, _)
ExecLoop(text, atoms, lastIndex, acc, fuel) ==
  LET m == RegexExec(text, atoms, lastIndex)
  IN IF m.index = -1 THEN [diverged |-> FALSE, matches |-> acc]
     ELSE IF fuel = 0 THEN [diverged |-> TRUE, matches |-> acc]
     ELSE ExecLoop(text, atoms, m.lastIndex,
                   Append(acc, [start |-> m.index, end |-> m.lastIndex]),
                   fuel - 1)

MatchLoop(text, atoms) == ExecLoop(text, atoms, 0, <<>>, Len(text) + 1)

\* ------------------------------------------------------ documents (pdf.js)
\* What getDocument(url), getPage(n), getTextContent() and getViewport()
\* return when they succeed.  Every run's width is a multiple of its text
\* length, so that textWidth / itemText.length is exact in the integers.
Run(str, tx, ty, width, height) ==
  [str |-> str, transform |-> <<1, 0, 0, 1, tx, ty>>,
   width |-> width, height |-> height]

Viewport == [width |-> 600, height |-> 800]

Document(u) ==
  IF u = PRIMARY_PDF_URL
  THEN [numPages |-> 2,
        pages |-> << <<Run(<<"I","n"," ","a">>, 0, 700, 40, 10)>>,
                     <<Run(<<"a","n">>, 50, 600, 20, 10)>> >>]
  ELSE [numPages |-> 1,
        pages |-> << <<Run(<<"I","n","s","i","d","e"," ","I","n">>,
                           10, 500, 90, 10)>> >>]

\* ------------------------------------------------------- findWordPositions
\* The same with the vertical edges the other way round
MatchPositionFlipped(item, m, pageNum, viewport) ==
  LET charWidth == item.width \div Len(item.str)
      x      == item.transform[5] + m.start * charWidth
      y      == viewport.height - item.transform[6]
      width  == (m.end - m.start) * charWidth
      height == item.height
  IN [pageNumber |-> pageNum,
      boundingRect |-> [x1 |-> x, y1 |-> y, x2 |-> x + width, y2 |-> y - height,
                        width |-> viewport.width, height |-> viewport.height],
      rects |-> <<[x1 |-> x, y1 |-> y, x2 |-> x + width, y2 |-> y - height,
                   width |-> width, height |-> height]>>]

\* lines 68-98: the ScaledPosition of one match of one text item
MatchPosition(item, m, pageNum, viewport) ==
  LET startIndex == m.start
      endIndex   == m.end
      textWidth  == item.width
      charWidth  == textWidth \div Len(item.str)
      x      == item.transform[5] + startIndex * charWidth
      y      == viewport.height - item.transform[6]
      width  == (endIndex - startIndex) * charWidth
      height == item.height
  IN [pageNumber |-> pageNum,
      boundingRect |-> [x1 |-> x, y1 |-> y - height, x2 |-> x + width, y2 |-> y,
                        width |-> viewport.width, height |-> viewport.height],
      rects |-> <<[x1 |-> x, y1 |-> y - height, x2 |-> x + width, y2 |-> y,
                   width |-> width, height |-> height]>>]

\* A forEach that puts the positions of later items first
RECURSIVE ScanItemsReversed(_, _, _, _)
ScanItemsReversed(items, atoms, pageNum, viewport) ==
  IF items = <<>> THEN [diverged |-> FALSE, positions |-> <<>>]
  ELSE LET item == Head(items)
           loop == MatchLoop(item.str, atoms)
           here == [k \in 1..Len(loop.matches) |->
                      MatchPosition(item, loop.matches[k], pageNum, viewport)]
       IN IF loop.diverged THEN [diverged |-> TRUE, positions |-> <<>>]
          ELSE LET rest == ScanItemsReversed(Tail(items), atoms, pageNum, viewport)
               IN [diverged |-> rest.diverged,
                   positions |-> rest.positions \o here]

\* lines 63-100: textContent.items.forEach over the items of one page.  The
\* first item whose match loop does not end keeps the forEach from returning.
RECURSIVE ScanItems(_, _, _, _)
ScanItems(items, atoms, pageNum, viewport) ==
  IF items = <<>> THEN [diverged |-> FALSE, positions |-> <<>>]
  ELSE LET item == Head(items)
           loop == MatchLoop(item.str, atoms)
           here == [k \in 1..Len(loop.matches) |->
                      MatchPosition(item, loop.matches[k], pageNum, viewport)]
       IN IF loop.diverged THEN [diverged |-> TRUE, positions |-> <<>>]
          ELSE LET rest == ScanItems(Tail(items), atoms, pageNum, viewport)
               IN [diverged |-> rest.diverged,
                   positions |-> here \o rest.positions]

\* ------------------------------------------------------------- highlights
\* The strings getNextId can return, cut to two: String(Math.random())
\* .slice(2) is drawn at random and nothing compares it with the ids in use.
GenIds == {"1", "2"}

AutoEmoji == "U+1F50D"

\* lines 109-117: the IHighlight made of one position of searchWord
AutoHighlight(id, position, word) ==
  [id |-> id, position |-> position, content |-> [text |-> word],
   comment |-> [text |-> AutoMarker \o <<" ">> \o word, emoji |-> AutoEmoji]]

\* line 191: isAutoHighlight
IsAutoHighlight(highlight) == StartsWith(highlight.comment.text, AutoMarker)

\* line 154: highlights.find(h => h.id === id); NotFound stands for undefined
NotFound == [id |-> "undefined"]
\* A find that takes the first highlight whatever its id
FindFirst(hs, id) == IF hs = <<>> THEN [id |-> "undefined"] ELSE hs[1]

FindById(hs, id) ==
  IF \E k \in 1..Len(hs) : hs[k].id = id
  THEN hs[CHOOSE k \in 1..Len(hs) :
            hs[k].id = id /\ \A j \in 1..(k - 1) : hs[j].id # id]
  ELSE NotFound

\* A selection of the user (onSelectionFinished) and the comments of the Tip
SelectionPosition ==
  [pageNumber |-> 1,
   boundingRect |-> [x1 |-> 5, y1 |-> 5, x2 |-> 25, y2 |-> 15,
                     width |-> 600, height |-> 800],
   rects |-> <<[x1 |-> 5, y1 |-> 5, x2 |-> 25, y2 |-> 15,
                width |-> 600, height |-> 800]>>]
ManualComments ==
  { <<>>, AutoMarker \o <<" ","I","n">> }
NewHighlights ==
  { [position |-> SelectionPosition, content |-> [text |-> <<"w","e">>],
     comment |-> [text |-> c, emoji |-> ""]] : c \in ManualComments }

\* ./test-highlights (line 18): the fixture table, a map from some urls to
\* literal highlight lists carrying their own ids.
Fixture(id, page) ==
  [id |-> id,
   position |-> [SelectionPosition EXCEPT !.pageNumber = page],
   content |-> [text |-> <<"b","o","x">>],
   comment |-> [text |-> <<"h","i","t">>, emoji |-> ""]]
\* PRIMARY_PDF_URL has a fixture list, SECONDARY_PDF_URL has none.
testHighlights ==
  [u \in {PRIMARY_PDF_URL} |-> <<Fixture("7", 1), Fixture("2", 2)>>]

\* the word lists highlightWords is called with (line 136 passes ["In"])
WordLists ==
  { << <<"I","n">> >>,
    << <<"I","n">>, <<"a">> >>,
    << <<"I","n">>, <<>> >> }

\* ------------------------------------------------------------------ state
VARIABLES
  url,              \* useState of line 127
  highlights,       \* useState of line 128: the registry
  scans,            \* the highlightWords calls made so far, in call order
  wordsToHighlight, \* the word list the url effect passes (line 136)
  origin,           \* history: who created highlights[k], and for which scan
  clearedIds,       \* history: the ids the last resetHighlights removed
                    \* (recorded under SpecRecording only)
  last,             \* history: the last step taken, and what it discarded
  hash,             \* document.location.hash (lines 26-27)
  scrolledTo,       \* history: what the last navigation event passed to
                    \* scrollViewerTo.current (line 155), or NoScroll
  probe             \* one text item given to the match loop of lines 63-100,
                    \* and what the loop made of it (SpecProbe only)

vars == <<url, highlights, scans, wordsToHighlight,
          origin, clearedIds, last, hash, scrolledTo, probe>>

\* what the steps of the registry and of the scans leave alone
aux == <<hash, scrolledTo, probe>>

NoScroll == [id |-> "no scroll"]
NoProbe == [pc |-> "none"]

IdsOf(hs) == {hs[k].id : k \in 1..Len(hs)}

\* lines 129 and 144: testHighlights[u] ? [...testHighlights[u]] : []
SeedFor(table, u) == IF u \in DOMAIN table THEN table[u] ELSE <<>>

\* A highlightWords call awaiting getDocument(url).promise (line 48)
NewScan(u) ==
  [url |-> u, pc |-> "getDocument", wordIdx |-> 0, pageNum |-> 0,
   positions |-> <<>>, highlightsToAdd |-> <<>>]

InFlight(s) ==
  s \in 1..Len(scans) /\ scans[s].pc \in {"getDocument", "getPage"}

\* The synchronous loop of line 67 that never ends blocks the only thread.
Hung == \E s \in 1..Len(scans) : scans[s].pc = "hung"

\* origin after a step of scan s: what the step appended is scan s's
OriginAfterScan(hs, s) ==
  [k \in 1..Len(hs) |->
     IF k <= Len(origin) THEN origin[k] ELSE [by |-> "auto", scan |-> s]]

Step(op, discarded) == [op |-> op, discarded |-> discarded]

Origins(os) == {os[k].by : k \in 1..Len(os)}

\* After the first render: the state of lines 127-130 when the location has
\* no url parameter, and the url effect of lines 135-138 has made the first
\* highlightWords call.
Init ==
  /\ url = PRIMARY_PDF_URL
  /\ wordsToHighlight \in WordLists
  /\ highlights = SeedFor(testHighlights, url)
  /\ scans = <<NewScan(url)>>
  /\ origin = [k \in 1..Len(highlights) |-> [by |-> "fixture", scan |-> 0]]
  /\ clearedIds = {}
  /\ last = Step("init", {})
  /\ hash = <<>>
  /\ scrolledTo = NoScroll
  /\ probe = NoProbe

\* ---------------------------------------------------------- event handlers
\* line 142
OtherUrl(u) == IF u = PRIMARY_PDF_URL THEN SECONDARY_PDF_URL ELSE PRIMARY_PDF_URL

\* A toggleDocument that reads the fixture list of the url of this render
\* instead of newUrl
ToggledHighlightsOfOldUrl(prev, newUrl) == SeedFor(testHighlights, url)

\* line 144: the registry toggleDocument sets
ToggledHighlights(prev, newUrl) == SeedFor(testHighlights, newUrl)

\* lines 141-145, and the url effect (lines 135-138) that the render runs
toggleDocument ==
  /\ ~Hung
  /\ UNCHANGED aux
  /\ Len(scans) <= MaxToggles
  /\ Cardinality({s \in 1..Len(scans) : InFlight(s)}) < MaxInFlight
  /\ LET newUrl == OtherUrl(url)
     IN /\ url' = newUrl
        /\ highlights' = ToggledHighlights(highlights, newUrl)
        /\ scans' = Append(scans, NewScan(newUrl))
  /\ origin' = [k \in 1..Len(highlights') |-> [by |-> "fixture", scan |-> 0]]
  /\ clearedIds' = {}
  /\ last' = Step("toggleDocument", Origins(origin))
  /\ UNCHANGED <<wordsToHighlight>>

\* line 149: prev => [{ ...highlight, id: getNextId() }, ...prev]
AddedHighlights(prev, highlight, id) ==
  <<[id |-> id, position |-> highlight.position, content |-> highlight.content,
     comment |-> highlight.comment]>> \o prev

\* lines 148-150, called by onConfirm (line 185); id is what getNextId returns
addHighlight ==
  /\ ~Hung
  /\ UNCHANGED aux
  /\ Cardinality({k \in 1..Len(origin) : origin[k].by = "manual"}) < MaxManual
  /\ \E highlight \in NewHighlights, id \in GenIds :
        /\ highlights' = AddedHighlights(highlights, highlight, id)
        /\ last' = Step("addHighlight", {})
  /\ origin' = <<[by |-> "manual", scan |-> 0]>> \o origin
  /\ UNCHANGED <<url, scans, wordsToHighlight, clearedIds>>

\* line 167: resetHighlights={() => setHighlights([])}
ResetHighlights(record) ==
  /\ ~Hung
  /\ UNCHANGED aux
  /\ highlights' = <<>>
  /\ origin' = <<>>
  /\ clearedIds' = IF record THEN IdsOf(highlights) ELSE {}
  /\ last' = Step("resetHighlights", Origins(origin))
  /\ UNCHANGED <<url, scans, wordsToHighlight>>

\* ---------------------------------------------------------- highlightWords

\* A merge over the registry as it was when highlightWords was called, in
\* place of the registry at the time of the merge
MergedOverSeed(prev, highlightsToAdd) ==
  SeedFor(testHighlights, url) \o highlightsToAdd

\* line 120: prev => [...prev, ...highlightsToAdd]
MergedHighlights(prev, highlightsToAdd) == prev \o highlightsToAdd

\* A highlightWords that calls setHighlights inside the loop over the words
MergedPerWord(prev, highlightsToAdd, isLastWord) ==
  MergedHighlights(prev, highlightsToAdd)

\* lines 107-120: the registry once the positions of a word are mapped to
\* highlights; setHighlights is called once, after the loop over the words
AfterWord(prev, highlightsToAdd, isLastWord) ==
  IF isLastWord THEN MergedHighlights(prev, highlightsToAdd) ELSE prev

\* A catch block that merges what the call had collected when it failed
MergedOnCatch(prev, highlightsToAdd) == prev \o highlightsToAdd

\* lines 121-123: the registry after the catch block, which only logs
AfterCatch(prev, highlightsToAdd) == prev

\* A findWordPositions whose page loop starts at page 2
EnterWordAtSecondPage(sc, idx) ==
  [sc EXCEPT !.pc = "getPage", !.wordIdx = idx, !.pageNum = 2,
             !.positions = <<>>]

\* findWordPositions(word) is entered (lines 51-58): the regex is built and
\* getPage(1) and its getTextContent() are awaited
EnterWord(sc, idx) ==
  [sc EXCEPT !.pc = "getPage", !.wordIdx = idx, !.pageNum = 1,
             !.positions = <<>>]

\* A call that has returned: its locals are gone
Finished(sc, pc) ==
  [sc EXCEPT !.pc = pc, !.wordIdx = 0, !.pageNum = 0, !.positions = <<>>,
             !.highlightsToAdd = <<>>]

\* line 48 resolves; the loop of line 107 starts with the first word
GetDocumentResolved(s) ==
  /\ ~Hung
  /\ UNCHANGED aux
  /\ InFlight(s) /\ scans[s].pc = "getDocument"
  /\ IF wordsToHighlight = <<>>
     THEN /\ scans' = [scans EXCEPT ![s] = Finished(@, "done")]
          /\ highlights' = AfterWord(highlights, <<>>, TRUE)
     ELSE /\ scans' = [scans EXCEPT ![s] = EnterWord(@, 1)]
          /\ highlights' = highlights
  /\ origin' = OriginAfterScan(highlights', s)
  /\ last' = Step("getDocument", {})
  /\ UNCHANGED <<url, wordsToHighlight, clearedIds>>

\* The awaits of lines 59 and 60 resolve (nothing of this call runs between
\* them): lines 61-100 scan the page; after the last page lines 103-117 map
\* the word's positions to highlights (ids: one getNextId each); after the
\* last word line 120 merges.
\* served[u] is the document the server holds at u.
PageExtractedOf(served, s) ==
  /\ ~Hung
  /\ UNCHANGED aux
  /\ InFlight(s) /\ scans[s].pc = "getPage"
  /\ LET sc   == scans[s]
         doc  == served[sc.url]
         word == wordsToHighlight[sc.wordIdx]
         res  == ScanItems(doc.pages[sc.pageNum], CompileRegex(word),
                           sc.pageNum, Viewport)
         positions == sc.positions \o res.positions
     IN IF res.diverged
        THEN /\ scans' = [scans EXCEPT ![s].pc = "hung"]
             /\ highlights' = highlights
        ELSE IF sc.pageNum < doc.numPages
        THEN /\ scans' = [scans EXCEPT ![s].pc = "getPage",
                                       ![s].pageNum = sc.pageNum + 1,
                                       ![s].positions = positions]
             /\ highlights' = highlights
        ELSE \E ids \in [1..Len(positions) -> GenIds] :
               LET toAdd == sc.highlightsToAdd \o
                              [k \in 1..Len(positions) |->
                                 AutoHighlight(ids[k], positions[k], word)]
                   isLastWord == sc.wordIdx = Len(wordsToHighlight)
               IN /\ highlights' = AfterWord(highlights, toAdd, isLastWord)
                  /\ scans' =
                       [scans EXCEPT ![s] =
                          IF isLastWord
                          THEN Finished(@, "done")
                          ELSE [EnterWord(@, sc.wordIdx + 1) EXCEPT
                                  !.highlightsToAdd = toAdd]]
  /\ origin' = OriginAfterScan(highlights', s)
  /\ last' = Step("pageExtracted", {})
  /\ UNCHANGED <<url, wordsToHighlight, clearedIds>>

PageExtracted(s) == PageExtractedOf([u \in Urls |-> Document(u)], s)

\* One of the awaits of lines 48, 59 and 60 rejects: the catch of line 121
Rejected(s) ==
  /\ ~Hung
  /\ UNCHANGED aux
  /\ InFlight(s)
  /\ highlights' = AfterCatch(highlights, scans[s].highlightsToAdd)
  /\ scans' = [scans EXCEPT ![s] = Finished(@, "failed")]
  /\ origin' = OriginAfterScan(highlights', s)
  /\ last' = Step("rejected", {scans[s].highlightsToAdd[k].content.text :
                                 k \in 1..Len(scans[s].highlightsToAdd)})
  /\ UNCHANGED <<url, wordsToHighlight, clearedIds>>

resetHighlights == ResetHighlights(FALSE)

resetHighlightsRecorded == ResetHighlights(TRUE)

ScanIds == 1..(MaxToggles + 1)

Next ==
  \/ toggleDocument
  \/ addHighlight
  \/ resetHighlights
  \/ \E s \in ScanIds : GetDocumentResolved(s)
  \/ \E s \in ScanIds : PageExtracted(s)
  \/ \E s \in ScanIds : Rejected(s)

Spec == Init /\ [][Next]_vars

\* The same program, with the history variable clearedIds recorded
NextRecording ==
  \/ toggleDocument
  \/ addHighlight
  \/ resetHighlightsRecorded
  \/ \E s \in ScanIds : GetDocumentResolved(s)
  \/ \E s \in ScanIds : PageExtracted(s)
  \/ \E s \in ScanIds : Rejected(s)

SpecRecording == Init /\ [][NextRecording]_vars

\* ------------------------------------------------ a document of many runs
\* A document with several runs on a page and several matches in a run; the
\* runs of a page are listed from the top of the page down.
DenseDocument(u) ==
  [numPages |-> 2,
   pages |-> << <<Run(<<"I","n"," ","a"," ","I","n">>, 0, 700, 70, 10),
                  Run(<<"a"," ","I","n">>, 0, 680, 40, 10)>>,
                <<Run(<<"I","n"," ","a">>, 0, 700, 40, 10)>> >>]

PageExtractedDense(s) ==
  PageExtractedOf([u \in Urls |-> DenseDocument(u)], s)

InitOrder ==
  /\ Init
  /\ wordsToHighlight = << <<"I","n">>, <<"a">> >>

\* One load of the dense document: no toggle, selection or clear
NextOrder ==
  \/ \E s \in ScanIds : GetDocumentResolved(s)
  \/ \E s \in ScanIds : PageExtractedDense(s)
  \/ \E s \in ScanIds : Rejected(s)

SpecOrder == InitOrder /\ [][NextOrder]_vars

\* ---------------------------------------------- loads that are left to end
\* The program with the word list of line 136, no clear and no rejected
\* await; every await of a call in flight resolves in the end.
InitLive ==
  /\ Init
  /\ wordsToHighlight = << <<"I","n">> >>

NextLive ==
  \/ toggleDocument
  \/ addHighlight
  \/ \E s \in ScanIds : GetDocumentResolved(s)
  \/ \E s \in ScanIds : PageExtracted(s)

SpecLive ==
  /\ InitLive
  /\ [][NextLive]_vars
  /\ \A s \in ScanIds : WF_vars(GetDocumentResolved(s))
  /\ \A s \in ScanIds : WF_vars(PageExtracted(s))

\* ------------------------------------------------------------- navigation
\* "#highlight-" (line 26), of which parseIdFromHash uses the length only
HashPrefix == <<"#","h","i","g","h","l","i","g","h","t","-">>

\* String.prototype.slice(n) for 0 <= n
Slice(str, n) == IF n >= Len(str) THEN <<>> ELSE SubSeq(str, n + 1, Len(str))

\* line 26: document.location.hash.slice("#highlight-".length)
ParseIdFromHash(h) == Slice(h, Len(HashPrefix))

\* The ids of the model are strings of one character: the id string that a
\* sequence of characters is.  No highlight has the id "" or "(longer)".
IdString(chars) ==
  IF chars = <<>> THEN "" ELSE IF Len(chars) = 1 THEN chars[1] ELSE "(longer)"

\* lines 154-155: the highlight scrollToHighlightFromHash passes to
\* scrollViewerTo.current, or NoScroll when find returns undefined
ScrollTarget(hs, h) ==
  LET highlight == FindById(hs, IdString(ParseIdFromHash(h)))
  IN IF highlight = NotFound THEN NoScroll ELSE highlight

\* the fragments the location is given: none, "#highlight-<id>" (an id that
\* a fixture carries, one that getNextId returns), and a fragment of the same
\* length with another prefix
OtherPrefix == <<"#","l","o","w","l","i","g","h","t","s","-">>
NavIds == {"7", "1"}
Hashes ==
  {<<>>} \cup {HashPrefix \o <<c>> : c \in NavIds} \cup {OtherPrefix \o <<"7">>}

unchangedByNavigation ==
  UNCHANGED <<url, highlights, scans, wordsToHighlight, origin, clearedIds, probe>>

\* The location's fragment changes to h; the hashchange listener of lines
\* 158-161 calls scrollToHighlightFromHash (lines 153-156)
hashchange ==
  /\ ~Hung
  /\ \E h \in Hashes \ {hash} :
        /\ hash' = h
        /\ scrolledTo' = ScrollTarget(highlights, h)
  /\ last' = Step("hashchange", {})
  /\ unchangedByNavigation

\* lines 177-180: PdfHighlighter hands over its scrollTo function, and
\* scrollToHighlightFromHash is called with the fragment as it is
scrollRef ==
  /\ ~Hung
  /\ scrolledTo' = ScrollTarget(highlights, hash)
  /\ last' = Step("scrollRef", {})
  /\ UNCHANGED hash
  /\ unchangedByNavigation

\* line 176: onScrollChange={resetHash} (line 27); the fragment changes to
\* "", so the hashchange listener runs on the empty fragment
onScrollChange ==
  /\ ~Hung
  /\ hash # <<>>
  /\ hash' = <<>>
  /\ scrolledTo' = ScrollTarget(highlights, <<>>)
  /\ last' = Step("onScrollChange", {})
  /\ unchangedByNavigation

\* The App with its one configured word (line 136) and the navigation events
InitNav == Init /\ wordsToHighlight = << <<"I","n">> >>

NextNav ==
  \/ toggleDocument
  \/ addHighlight
  \/ resetHighlights
  \/ \E s \in ScanIds : GetDocumentResolved(s)
  \/ \E s \in ScanIds : PageExtracted(s)
  \/ hashchange
  \/ scrollRef
  \/ onScrollChange

SpecNav == InitNav /\ [][NextNav]_vars

\* ------------------------------------------------- the match loop, by step
\* The texts and words the loop of lines 63-100 is probed with
ProbeTexts ==
  { <<>>,
    <<"I","n">>,
    <<"I","n"," ","I","n">>,
    <<"I","n","s","i","d","e">>,
    <<"w","i","t","h","i","n">>,
    <<"i","n"," ","I","n">>,
    <<"a",".","b">>,
    <<"a","x","b">>,
    <<"a","."," ","b">>,
    <<" "," ">> }
ProbeWords ==
  { <<"I","n">>, <<"a",".","b">>, <<"a",".">>, <<".">>, <<>> }

\* The text items: width is charWidth times the length of the text, so that
\* textWidth / itemText.length is exact; widths and heights are 0 or more.
ProbeItems ==
  { Run(t, tx, 700, Len(t) * cw, h) :
      t \in ProbeTexts, tx \in {0, 50}, cw \in {0, 10}, h \in {0, 10} }

\* A regex built for searchWord (lines 55-56, lastIndex 0) about to run the
\* loop of line 67 on one item of page 1
NewProbe(item, searchWord) ==
  [pc |-> "loop", item |-> item, word |-> searchWord, lastIndex |-> 0,
   positions |-> <<>>, starts |-> <<>>]

InitProbe ==
  /\ Init
  /\ wordsToHighlight = << <<"I","n">> >>

\* One call of regex.exec on the probed item (line 67) and, on a match, the
\* loop body (lines 68-98).  The loop is followed for Len(text) + 1 matches;
\* a loop that makes more is not going to end (pc = "hung").
ProbeExec ==
  /\ probe.pc = "loop"
  /\ LET text == probe.item.str
         m == RegexExec(text, CompileRegex(probe.word), probe.lastIndex)
     IN IF m.index = -1
        THEN probe' = [probe EXCEPT !.pc = "done", !.lastIndex = m.lastIndex]
        ELSE IF Len(probe.positions) > Len(text)
        THEN probe' = [probe EXCEPT !.pc = "hung"]
        ELSE probe' =
               [probe EXCEPT
                  !.lastIndex = m.lastIndex,
                  !.starts = Append(@, m.index),
                  !.positions =
                     Append(@, MatchPosition(probe.item,
                                             [start |-> m.index, end |-> m.lastIndex],
                                             1, Viewport))]
  /\ UNCHANGED <<url, highlights, scans, wordsToHighlight, origin, clearedIds,
                 last, hash, scrolledTo>>

\* The loop of lines 63-100 is started on an item of a page
ProbeStart ==
  /\ probe.pc = "none"
  /\ \E item \in ProbeItems, searchWord \in ProbeWords :
        probe' = NewProbe(item, searchWord)
  /\ UNCHANGED <<url, highlights, scans, wordsToHighlight, origin, clearedIds,
                 last, hash, scrolledTo>>

NextProbe == ProbeStart \/ ProbeExec

SpecProbe == InitProbe /\ [][NextProbe]_vars

\* ----------------------------------------------------------------- claims
Registry == 1..Len(highlights)

IsAuto(k) == origin[k].by = "auto"
IsManual(k) == origin[k].by = "manual"

\* The step is the merge of line 120 by some scan
MergeStep == \E s \in 1..Len(scans) : scans[s].pc = "getPage" /\ scans'[s].pc = "done"

\* C1: while the current url is B, the registry holds no automatic highlight
\* made by a scan that was started for another url.
C1_NoHighlightOfAnotherUrl ==
  \A k \in Registry : IsAuto(k) => scans[origin[k].scan].url = url

\* C2: a scan's results are merged only if the load that started it is still
\* the current one: an automatic highlight of a scan of the current url is of
\* the latest scan (after A, B, A the first scan of A merges nothing), and the
\* registry never holds two copies of the same match.
C2_OnlyCurrentLoadMerges ==
  /\ \A k \in Registry :
        IsAuto(k) /\ scans[origin[k].scan].url = url
          => origin[k].scan = Len(scans)
  /\ \A j, k \in Registry :
        j < k /\ IsAuto(j) /\ IsAuto(k)
          => ~(/\ highlights[j].position = highlights[k].position
               /\ highlights[j].content = highlights[k].content)

\* C3: right after toggleDocument the registry is exactly the fixture list of
\* the new url, in fixture order, or empty when the url has no fixture.
C3_ToggleSeedsFixture ==
  last.op = "toggleDocument"
    => highlights = (IF url \in DOMAIN testHighlights
                     THEN testHighlights[url] ELSE <<>>)

\* a toggle back to the url that has a fixture list, which replaced a registry
\* holding manual and automatic highlights
C3_Witness ==
  /\ last.op = "toggleDocument"
  /\ {"manual", "auto"} \subseteq last.discarded
  /\ url = PRIMARY_PDF_URL
  /\ Len(highlights) = 2

\* C4: no two highlights of the registry have the same id.
C4_UniqueIds ==
  \A j, k \in Registry : j # k => highlights[j].id # highlights[k].id

\* C5: addHighlight on a registry S yields <<h>> \o S, where h carries the
\* draft's position, content and comment and an id no record of S uses.
C5_AddPrependsFresh ==
  [][last'.op = "addHighlight"
       => /\ Len(highlights') = Len(highlights) + 1
          /\ Tail(highlights') = highlights
          /\ \E d \in NewHighlights :
                /\ highlights'[1].position = d.position
                /\ highlights'[1].content = d.content
                /\ highlights'[1].comment = d.comment
          /\ highlights'[1].id \notin IdsOf(highlights)]_vars

\* C6: a merge appends its batch to the registry S, keeping S as it is, and
\* the records it appends have ids different from one another and from the
\* ids of the automatic highlights merged before (the same batch merged
\* twice gives 2n records with pairwise different ids).
C6_MergeAppendsDistinct ==
  [][MergeStep
       => /\ Len(highlights') >= Len(highlights)
          /\ SubSeq(highlights', 1, Len(highlights)) = highlights
          /\ \A j, k \in (Len(highlights) + 1)..Len(highlights') :
                j # k => highlights'[j].id # highlights'[k].id
          /\ \A j \in Registry, k \in (Len(highlights) + 1)..Len(highlights') :
                IsAuto(j) => highlights[j].id # highlights'[k].id]_vars

\* C7: every highlight made by addHighlight is classified manual and every
\* highlight made by a scan is classified automatic.
C7_OriginClassified ==
  \A k \in Registry :
     /\ IsManual(k) => ~IsAutoHighlight(highlights[k])
     /\ IsAuto(k) => IsAutoHighlight(highlights[k])

\* C8: an empty search word is rejected before scanning: no page is awaited
\* for it, no match loop is entered for it, and no highlight with an empty
\* content text is in the registry.
C8_EmptyWordRejected ==
  /\ \A s \in 1..Len(scans) :
        scans[s].pc \in {"getPage", "hung"}
          => wordsToHighlight[scans[s].wordIdx] # <<>>
  /\ \A k \in Registry : highlights[k].content.text # <<>>

\* C9: a scan that failed (getDocument, getPage or getTextContent rejected,
\* for any word and page) has merged nothing, not even the highlights of the
\* words it had scanned completely, and the failure leaves the registry as
\* it was.
C9_FailedScanMergesNothing ==
  /\ [](\A s \in 1..Len(scans) :
          scans[s].pc = "failed"
            => \A k \in Registry : ~(IsAuto(k) /\ origin[k].scan = s))
  /\ [][last'.op = "rejected" => highlights' = highlights]_vars

\* a scan has just failed after it had scanned a word completely and made
\* highlights of it; the registry holds records
C9_Witness ==
  /\ last.op = "rejected"
  /\ last.discarded # {}
  /\ highlights # <<>>

\* C10: after resetHighlights the registry is empty, and findById finds none
\* of the ids the registry held before, then and in every later state that
\* merges and addHighlight calls reach.
C10_ClearedIdsNotFound ==
  /\ last.op = "resetHighlights" => highlights = <<>>
  /\ \A id \in clearedIds : FindById(highlights, id) = NotFound

NavigationStep == last.op \in {"hashchange", "scrollRef", "onScrollChange"}

\* the ids of the model: of the fixtures, of getNextId, of the fragments
KnownIds == GenIds \cup NavIds \cup {"2", "7", "", "(longer)"}

\* C11: findById resolves against the current registry: for an id that a
\* record holds it returns a record of the registry with that id (the first
\* one), so after toggleDocument seeded the registry the id of the first
\* fixture resolves to that fixture; for an id no record holds it returns
\* not-found, and then a navigation event does not call the scroll callback.
C11_FindByIdResolves ==
  /\ \A k \in Registry :
        LET found == FindById(highlights, highlights[k].id)
        IN /\ found.id = highlights[k].id
           /\ \E j \in 1..k : found = highlights[j]
           /\ (\A j \in Registry : j # k => highlights[j].id # highlights[k].id)
                => found = highlights[k]
  /\ \A id \in KnownIds \ IdsOf(highlights) : FindById(highlights, id) = NotFound
  /\ last.op = "toggleDocument" /\ highlights # <<>>
        => FindById(highlights, highlights[1].id) = testHighlights[url][1]
  /\ NavigationStep
        => IF IdString(ParseIdFromHash(hash)) \in IdsOf(highlights)
           THEN /\ scrolledTo \in {highlights[k] : k \in Registry}
                /\ scrolledTo.id = IdString(ParseIdFromHash(hash))
           ELSE scrolledTo = NoScroll

\* the fragment has just become "#highlight-1" and the viewer was scrolled to
\* the record with id "1", which is not the first of the registry
C11_Witness ==
  /\ last.op = "hashchange"
  /\ hash = HashPrefix \o <<"1">>
  /\ scrolledTo # NoScroll
  /\ scrolledTo.id = "1"
  /\ Len(highlights) >= 2
  /\ highlights[1].id # "1"

\* C12: a navigation event scrolls the viewer to highlight h only if the
\* fragment is exactly "#highlight-" followed by the id of h.
C12_OnlyHighlightFragmentScrolls ==
  NavigationStep /\ scrolledTo # NoScroll
    => hash = HashPrefix \o <<scrolledTo.id>>

\* The 0-based indices of text at which word occurs bounded on each side by
\* a non-word character or an edge of the text
IsWholeWordAt(text, word, i) ==
  /\ i + Len(word) <= Len(text)
  /\ SubSeq(text, i + 1, i + Len(word)) = word
  /\ i = 0 \/ ~IsWordChar(text[i])
  /\ i + Len(word) = Len(text) \/ ~IsWordChar(text[i + Len(word) + 1])

\* The starts of the non-overlapping whole-word occurrences of a non-empty
\* word, found from the left, each search resuming at the end of the last
RECURSIVE WholeWordStarts(_, _, _)
WholeWordStarts(text, word, from) ==
  LET at == {i \in from..Len(text) : IsWholeWordAt(text, word, i)}
  IN IF at = {} THEN <<>>
     ELSE LET i == CHOOSE j \in at : \A k \in at : j <= k
          IN <<i>> \o WholeWordStarts(text, word, i + Len(word))

\* C13: for every run and every non-empty word, the loop emits exactly one
\* position per non-overlapping case-sensitive occurrence of the word that
\* is bounded on each side by a non-word character or a string edge, and none
\* where the word does not so occur.
C13_OnePositionPerWholeWord ==
  (probe.pc = "done" /\ probe.word # <<>>)
    => /\ probe.starts = WholeWordStarts(probe.item.str, probe.word, 0)
       /\ Len(probe.positions) = Len(probe.starts)

BoundingOk(r) == r.x1 <= r.x2 /\ r.y1 <= r.y2

\* C14: every position the loop produces has x1 <= x2 and y1 <= y2, in its
\* boundingRect and in rects[0], for items of any width and height from 0 up;
\* so has every automatic highlight of the registry.
C14_BoundingRects ==
  /\ probe.pc # "none"
       => \A k \in 1..Len(probe.positions) :
             /\ BoundingOk(probe.positions[k].boundingRect)
             /\ BoundingOk(probe.positions[k].rects[1])
  /\ \A k \in 1..Len(highlights) :
        IsAutoHighlight(highlights[k])
          => /\ BoundingOk(highlights[k].position.boundingRect)
             /\ BoundingOk(highlights[k].position.rects[1])

\* a finished loop that produced a position from an item reported with
\* width 0 and height 0: both rectangles have no extent
C14_Witness ==
  /\ probe.pc = "done"
  /\ Len(probe.positions) >= 1
  /\ probe.item.width = 0
  /\ probe.item.height = 0
  /\ probe.positions[1].boundingRect.x1 = probe.positions[1].boundingRect.x2
  /\ probe.positions[1].boundingRect.y1 = probe.positions[1].boundingRect.y2

\* C19: the match loop ends for every text and every word: each iteration
\* advances lastIndex, so that a run of length n gives at most n matches.
C19_MatchLoopTerminates ==
  probe.pc # "none"
    => /\ probe.pc # "hung"
       /\ Len(probe.starts) <= Len(probe.item.str)
       /\ \A k \in 1..(Len(probe.starts) - 1) : probe.starts[k] < probe.starts[k + 1]

\* The loop followed step by step gives what MatchLoop and ScanItems give.
ProbeAgreesWithScanItems ==
  LET scan == ScanItems(<<probe.item>>, CompileRegex(probe.word), 1, Viewport)
  IN /\ probe.pc = "done" => ~scan.diverged /\ scan.positions = probe.positions
     /\ probe.pc = "hung" => scan.diverged

\* Where a highlight of the dense document comes from: the index of its word
\* in the word list, its page, the index of its run on the page (read from
\* the run's baseline) and the start index of its match (read from x1).
KeyOf(h) ==
  LET doc   == DenseDocument(url)
      w     == CHOOSE i \in 1..Len(wordsToHighlight) :
                  wordsToHighlight[i] = h.content.text
      p     == h.position.pageNumber
      r     == CHOOSE i \in 1..Len(doc.pages[p]) :
                  Viewport.height - doc.pages[p][i].transform[6]
                    = h.position.boundingRect.y2
      item  == doc.pages[p][r]
      start == (h.position.boundingRect.x1 - item.transform[5])
                 \div (item.width \div Len(item.str))
  IN <<w, p, r, start>>

\* a comes before b by word, then page, then run, then start
KeyBefore(a, b) ==
  \E n \in 1..4 : a[n] < b[n] /\ \A j \in 1..(n - 1) : a[j] = b[j]

\* The whole-word matches of the words in the dense document
DenseKeys ==
  LET doc == DenseDocument(url)
  IN { <<w, p, r, st>> \in
         (1..Len(wordsToHighlight)) \X (1..doc.numPages) \X (1..2) \X (0..6) :
         /\ r <= Len(doc.pages[p])
         /\ IsWholeWordAt(doc.pages[p][r].str, wordsToHighlight[w], st) }

\* C15: the records one load merges are in a fixed order: by the index of
\* their word in the word list, then by page number, then by run in the
\* order the page lists its runs, then by match start index; and they are
\* the records of all the matches.
C15_MergeOrder ==
  /\ \A j, k \in Registry :
        (IsAuto(j) /\ IsAuto(k) /\ j < k)
          => KeyBefore(KeyOf(highlights[j]), KeyOf(highlights[k]))
  /\ (scans[1].pc = "done")
        => {KeyOf(highlights[k]) : k \in {j \in Registry : IsAuto(j)}} = DenseKeys

\* the load has merged records of two words, two pages, two runs of a page
\* and two matches in a run
C15_Witness ==
  /\ scans[1].pc = "done"
  /\ \E j, k \in Registry : /\ IsAuto(j) /\ IsAuto(k)
                             /\ KeyOf(highlights[j])[1] # KeyOf(highlights[k])[1]
  /\ \E j, k \in Registry : /\ IsAuto(j) /\ IsAuto(k)
                             /\ KeyOf(highlights[j])[2] # KeyOf(highlights[k])[2]
  /\ \E j, k \in Registry :
        /\ IsAuto(j) /\ IsAuto(k) /\ j # k
        /\ SubSeq(KeyOf(highlights[j]), 1, 2) = SubSeq(KeyOf(highlights[k]), 1, 2)
        /\ KeyOf(highlights[j])[3] # KeyOf(highlights[k])[3]
  /\ \E j, k \in Registry :
        /\ IsAuto(j) /\ IsAuto(k) /\ j # k
        /\ SubSeq(KeyOf(highlights[j]), 1, 3) = SubSeq(KeyOf(highlights[k]), 1, 3)

\* C16: the words of one load are scanned one after the other: the page
\* extraction a scan awaits next is page 1 of the first word, the next page of
\* the same word, or page 1 of the next word once the last page of the word
\* before it has been extracted; a scan awaits one extraction at a time.
C16_WordScansSequential ==
  [][\A s \in 1..Len(scans) :
       LET a == scans[s]
           b == scans'[s]
           numPages == DenseDocument(a.url).numPages
       IN (b.pc = "getPage" /\ b # a)
            => \/ /\ a.pc = "getDocument"
                  /\ b.wordIdx = 1 /\ b.pageNum = 1
               \/ /\ a.pc = "getPage" /\ a.pageNum < numPages
                  /\ b.wordIdx = a.wordIdx /\ b.pageNum = a.pageNum + 1
               \/ /\ a.pc = "getPage" /\ a.pageNum = numPages
                  /\ b.wordIdx = a.wordIdx + 1 /\ b.pageNum = 1]_vars

\* the load awaits the first page of its second word, having scanned both
\* pages of the first
C16_Witness ==
  /\ scans[1].pc = "getPage"
  /\ scans[1].wordIdx = 2
  /\ scans[1].pageNum = 1
  /\ Len(scans[1].highlightsToAdd) = 4

\* The word and position of every match of the words in the document at u,
\* in the order of the word list and of the pages
RECURSIVE PagesFrom(_, _, _)
PagesFrom(u, word, pageNum) ==
  IF pageNum > Document(u).numPages THEN <<>>
  ELSE LET res == ScanItems(Document(u).pages[pageNum], CompileRegex(word),
                            pageNum, Viewport)
       IN [k \in 1..Len(res.positions) |->
             [text |-> word, position |-> res.positions[k]]]
          \o PagesFrom(u, word, pageNum + 1)

RECURSIVE ExpectedBatch(_, _)
ExpectedBatch(u, words) ==
  IF words = <<>> THEN <<>>
  ELSE PagesFrom(u, Head(words), 1) \o ExpectedBatch(u, Tail(words))

\* The registry is: manual highlights, then the seed of the current url, then
\* the automatic highlights of every word for the current url, made by the
\* load of the current url
Populated ==
  LET seed  == SeedFor(testHighlights, url)
      batch == ExpectedBatch(url, wordsToHighlight)
      nm    == Cardinality({k \in Registry : IsManual(k)})
  IN /\ scans[Len(scans)].pc = "done"
     /\ Len(highlights) = nm + Len(seed) + Len(batch)
     /\ \A k \in 1..nm : IsManual(k)
     /\ SubSeq(highlights, nm + 1, nm + Len(seed)) = seed
     /\ \A k \in 1..Len(batch) :
           LET h == highlights[nm + Len(seed) + k]
           IN /\ IsAuto(nm + Len(seed) + k)
              /\ origin[nm + Len(seed) + k].scan = Len(scans)
              /\ h.content.text = batch[k].text
              /\ h.position = batch[k].position

\* C17: when every await resolves and no clear is made, the registry becomes
\* the seed of the current url (with the manual highlights in front) followed
\* by the automatic highlights of every word for that url, and stays so until
\* the next operation.  Every load left to run ends (SpecLive), and a state
\* in which every load has ended is left by an operation only: in such a
\* state the registry is the populated one.
C17_PopulatedWhenSettled ==
  (\A s \in 1..Len(scans) : scans[s].pc = "done") => Populated

\* The step is a merge by scan s
MergeStepOf(s) == scans[s].pc = "getPage" /\ scans'[s].pc = "done"

\* C18: no update is lost between the user and a scan.  A merge keeps every
\* record of the registry in place and puts every highlight of the scan after
\* them; addHighlight keeps every record and puts the new one in front; so in
\* every state no automatic highlight comes before a manual one.
C18_NoLostUpdate ==
  /\ [](\A j, k \in Registry : (IsManual(j) /\ IsAuto(k)) => j < k)
  /\ [][\A s \in 1..Len(scans) :
          MergeStepOf(s)
            => LET batch == ExpectedBatch(scans[s].url, wordsToHighlight)
                   n     == Len(highlights)
               IN /\ Len(highlights') = n + Len(batch)
                  /\ SubSeq(highlights', 1, n) = highlights
                  /\ \A k \in 1..Len(batch) :
                        /\ highlights'[n + k].content.text = batch[k].text
                        /\ highlights'[n + k].position = batch[k].position
                        /\ IsAutoHighlight(highlights'[n + k])]_vars
  /\ [][last'.op = "addHighlight"
          => /\ Len(highlights') = Len(highlights) + 1
             /\ Tail(highlights') = highlights
             /\ ~(origin'[1].by = "auto")]_vars

\* the only load has just merged into a registry that holds a highlight the
\* user added while the load was in flight
C18_Witness ==
  /\ Len(scans) = 1
  /\ scans[1].pc = "done"
  /\ last.op = "pageExtracted"
  /\ IsManual(1)
  /\ IsAuto(Len(highlights))

\* The places of the registry that hold a highlight merged by scan s
MergedBy(s) == {k \in Registry : IsAuto(k) /\ origin[k].scan = s}

\* C20: the automatic highlights of a highlightWords call enter the registry
\* together: in every state the registry holds none of them or all of them
\* (the matches of every word on every page, side by side and in order), and
\* none while the call is still running or after it failed.
C20_AllOrNone ==
  \A s \in 1..Len(scans) :
    LET batch == ExpectedBatch(scans[s].url, wordsToHighlight)
        at    == MergedBy(s)
    IN /\ at # {} =>
            /\ scans[s].pc = "done"
            /\ Cardinality(at) = Len(batch)
            /\ \E first \in Registry :
                  /\ at = first..(first + Len(batch) - 1)
                  /\ \A k \in 1..Len(batch) :
                        /\ highlights[first + k - 1].content.text = batch[k].text
                        /\ highlights[first + k - 1].position = batch[k].position

\* the registry holds the highlights of a call that scanned two words on two
\* pages, all of them
C20_Witness ==
  \E s \in 1..Len(scans) :
    /\ scans[s].pc = "done"
    /\ Len(wordsToHighlight) = 2
    /\ Cardinality(MergedBy(s)) >= 2
    /\ Cardinality(MergedBy(s)) = Len(ExpectedBatch(scans[s].url, wordsToHighlight))

====
